---- MODULE Spec2Model ----
(***************************************************************************)
(* Fisher-Leetcode: the per-guild daily-challenge workflow of LeetcodeCog. *)
(* The four tables of models.py, the scheduler's job store, the chat       *)
(* platform's view of each guild, and one action per command / job handler *)
(* of cogs/LeetcodeCog.py, with the queries of crud.py as operators.       *)
(***************************************************************************)
EXTENDS Integers, FiniteSets, Sequences, TLC

\* ---------------------------------------------------------------- bounds
MaxDay == 1

Guilds == {1, 2}
Users == {1, 2}
Days == 0..MaxDay

VARIABLES
    now,                    \* current UTC calendar day
    import_day,             \* UTC day on which models.py was imported by the running process
    leetcode_guild_configs, \* table GuildConfig
    leetcode_members,       \* table Member
    leetcode_questions,     \* table Question
    leetcode_submissions,   \* table Submission
    jobs,                   \* the scheduler's durable job store
    platform,               \* chat platform: per guild, is the bot in it, does the role exist, channel state
    out,                    \* what the last handler invocation reported and sent
    cleaning,               \* guilds whose clean handler is suspended between removing the job and deleting the config
    submitting,             \* submit calls that passed validation and wait for the database
    http_sessions           \* per guild: the cached HTTP session (<<>> none) and the cookie it carries

vars == <<now, import_day, leetcode_guild_configs, leetcode_members,
          leetcode_questions, leetcode_submissions, jobs, platform, out, cleaning, submitting, http_sessions>>

\* ------------------------------------------------------- the external site
\* The daily challenge of UTC day d: its date is d and its question is d + 1.
QuestionOfDay(d) == d + 1

\* Submission details as the site returns them for each submission id
\* (question id, timestamp in hours since UTC day 0, statusCode, difficulty
\* label).  An id beyond the catalogue is "not found or not accessible".
\* The label is whatever that answer carries: the site has re-rated
\* question 1 between submissions 1 and 5, and submission 6 carries a label
\* outside Easy/Medium/Hard.
SiteSubmissions ==
    << [question |-> 1, timestamp |-> 5, statusCode |-> 10, difficulty |-> "Easy"],
       [question |-> 2, timestamp |-> 30, statusCode |-> 10, difficulty |-> "Medium"],
       [question |-> 2, timestamp |-> 23, statusCode |-> 10, difficulty |-> "Medium"],
       [question |-> 1, timestamp |-> 0, statusCode |-> 11, difficulty |-> "Easy"],
       [question |-> 1, timestamp |-> 12, statusCode |-> 10, difficulty |-> "Hard"],
       [question |-> 1, timestamp |-> 7, statusCode |-> 10, difficulty |-> "Expert"],
       [question |-> 1, timestamp |-> 8, statusCode |-> 99, difficulty |-> "Easy"] >>

\* Title and slug the site gives for a question id.
SiteTitle(question_id) == <<"Question", question_id>>
SiteSlug(question_id) == <<"question", question_id>>

HoursPerDay == 24

\* datetime.fromtimestamp(timestamp, utc).replace(hour=0, minute=0, ...)
utc_day(timestamp) == timestamp \div HoursPerDay

HttpResponses == {"ok", "http_error", "null"}

\* ------------------------------------------------------------ user inputs
\* link_or_id as typed by the user: a short string of characters.
LinkInputs ==
    { <<"/">>, <<"1">>, <<"/", "2", "/">>, <<"3", "/", "1">>,
      <<"0", "4">>, <<"9">> }

\* Ids typed as they are, one for every submission the site knows.
IdInputs == { <<"1">>, <<"2">>, <<"3">>, <<"5">>, <<"6">>, <<"7">> }

DigitChars == <<"0", "1", "2", "3", "4", "5", "6", "7", "8", "9">>
IsDigit(c) == \E i \in 1..10 : DigitChars[i] = c
DigitVal(c) == (CHOOSE i \in 1..10 : DigitChars[i] = c) - 1

\* re_search(r"(\d+)", s): the span of the first run of digits, <<>> if none.
RECURSIVE DigitRunEnd(_, _)
DigitRunEnd(s, i) ==
    IF i < Len(s) /\ IsDigit(s[i + 1]) THEN DigitRunEnd(s, i + 1) ELSE i

re_search_digits(s) ==
    IF \E i \in 1..Len(s) : IsDigit(s[i])
    THEN LET first == CHOOSE i \in 1..Len(s) :
                          IsDigit(s[i]) /\ \A j \in 1..(i - 1) : ~IsDigit(s[j])
         IN  SubSeq(s, first, DigitRunEnd(s, first))
    ELSE <<>>

\* int(match.group())
RECURSIVE int(_)
int(ds) ==
    IF Len(ds) = 0 THEN 0
    ELSE 10 * int(SubSeq(ds, 1, Len(ds) - 1)) + DigitVal(ds[Len(ds)])

\* ------------------------------------------------------------------ crud
get_leetcode_config(configs, guild_id) ==
    {c \in configs : c.guild_id = guild_id}

get_member_by_guild_user(members, guild_id, user_id) ==
    {m \in members : m.guild_id = guild_id /\ m.user_id = user_id}

get_guild_members(members, guild_id) ==
    {m \in members : m.guild_id = guild_id}

get_leetcode_configs_with_active_daily_challenge(configs) ==
    {c \in configs : c.daily_challenge_on}

get_question_by_id(questions, question_id) ==
    {q \in questions : q.id = question_id}

\* Member.id: the identity of a member row, here its key (guild_id, user_id).
MemberId(m) == <<m.guild_id, m.user_id>>
SubmissionMemberId(s) == <<s.guild_id, s.user_id>>

get_member(members, member_id) ==
    {m \in members : MemberId(m) = member_id}

get_submission(submissions, member_id, submission_id) ==
    {s \in submissions : SubmissionMemberId(s) = member_id
                         /\ s.submission_id = submission_id}

\* today = today or datetime.now(timezone.utc); a date never set is <<>>.
TodayOr(today) == IF Len(today) = 0 THEN now ELSE today[1]

\* get_completed_user_ids without the Member.guild_id filter.
get_completed_user_ids_any_guild(submissions, members, guild_id, today) ==
    [u \in Users |->
        Cardinality({s \in submissions :
            /\ \E m \in members : /\ MemberId(m) = SubmissionMemberId(s)
                                  /\ m.user_id = u
            /\ s.created_at = TodayOr(today)})]

\* One result row per Submission joined to its Member: a bag of user ids,
\* given as the function user id -> number of rows.
get_completed_user_ids(submissions, members, guild_id, today) ==
    [u \in Users |->
        Cardinality({s \in submissions :
            /\ \E m \in members : /\ MemberId(m) = SubmissionMemberId(s)
                                  /\ m.guild_id = guild_id
                                  /\ m.user_id = u
            /\ s.created_at = TodayOr(today)})]

\* get_uncompleted_user_ids with a subquery that does not filter by day.
get_uncompleted_user_ids_any_day(submissions, members, guild_id, today) ==
    [u \in Users |->
        Cardinality({m \in members :
            /\ m.guild_id = guild_id
            /\ m.user_id = u
            /\ ~\E s \in submissions : SubmissionMemberId(s) = MemberId(m)})]

\* Member LEFT OUTER JOIN (submissions of that day) WHERE no row matched.
get_uncompleted_user_ids(submissions, members, guild_id, today) ==
    [u \in Users |->
        Cardinality({m \in members :
            /\ m.guild_id = guild_id
            /\ m.user_id = u
            /\ ~\E s \in submissions : /\ s.created_at = TodayOr(today)
                                       /\ SubmissionMemberId(s) = MemberId(m)})]

BagSet(b) == {u \in DOMAIN b : b[u] > 0}

\* ---------------------------------------------------------------- models
\* Submission.created_at default: datetime.now() evaluated when the class
\* body runs, i.e. once per process at import.
SubmissionCreatedAtDefault == import_day

\* Primary key of leetcode_submissions.
SubmissionKey(s) == <<s.submission_id, s.guild_id, s.question_id>>

\* ondelete="CASCADE": rows owned by a deleted GuildConfig / Member.
CascadeMembers(members, guild_id) ==
    {m \in members : m.guild_id # guild_id}
CascadeSubmissionsOfGuild(submissions, guild_id) ==
    {s \in submissions : s.guild_id # guild_id}
CascadeSubmissionsOfMember(submissions, member_id) ==
    {s \in submissions : SubmissionMemberId(s) # member_id}

\* --------------------------------------------------------------- outcome
\* What a handler invocation was given (arg: the text typed, resp: the
\* responses of the external site) and what it reported: status 0 and error
\* "" for success, otherwise the status code and the error raised; detail:
\* the ids the message cites; api: calls made to the external site; sent:
\* the messages sent.
NoOut == [op |-> "none", guild |-> 0, user |-> 0, arg |-> <<>>, resp |-> <<>>,
          status |-> 0, error |-> "", detail |-> <<>>, api |-> 0, sent |-> <<>>]

Reply(op, g, u, status, error, detail, api, sent) ==
    [op |-> op, guild |-> g, user |-> u, arg |-> <<>>, resp |-> <<>>,
     status |-> status, error |-> error, detail |-> detail, api |-> api,
     sent |-> sent]

Given(reply, arg, resp) == [reply EXCEPT !.arg = arg, !.resp = resp]

Message(g, kind, users) == [channel |-> g, kind |-> kind, users |-> users]

\* ------------------------------------------------------------------ Init
START_TIME == <<0, 0, 0>>
END_TIME == <<23, 59, 59>>

\* added: the UTC day on which the job was written to the store.
GlobalJob(id, t, day) == [id |-> id, guild |-> 0, time |-> t, added |-> day]
RemindJob(g, t) == [id |-> "remind", guild |-> g, time |-> t]

Init ==
    /\ now = 0
    /\ import_day = 0
    /\ leetcode_guild_configs = {}
    /\ leetcode_members = {}
    /\ leetcode_questions = {}
    /\ leetcode_submissions = {}
    /\ jobs = { GlobalJob("daily-challenge-start", START_TIME, 0),
                GlobalJob("daily-challenge-end", END_TIME, 0) }
    /\ platform = [g \in Guilds |-> [present |-> TRUE, role |-> FALSE, channel |-> "ok"]]
    /\ out = NoOut
    /\ cleaning = {}
    /\ submitting = {}
    /\ http_sessions = [g \in Guilds |-> <<>>]

\* ------------------------------------------------------ time-of-day text
Fmt02(n) == <<DigitChars[(n \div 10) + 1], DigitChars[(n % 10) + 1]>>

\* f"{hour:02d}:{minute:02d}:{second:02d}"
TimeStr(h, m, s) == Fmt02(h) \o <<":">> \o Fmt02(m) \o <<":">> \o Fmt02(s)

\* GuildConfig.remind_time default
DefaultRemindTime == <<"2", "3", ":", "0", "0", ":", "0", "0">>

\* timestr.split(":")
RECURSIVE SplitColon(_)
SplitColon(s) ==
    IF \E i \in 1..Len(s) : s[i] = ":"
    THEN LET k == CHOOSE i \in 1..Len(s) :
                      s[i] = ":" /\ \A j \in 1..(i - 1) : s[j] # ":"
         IN  <<SubSeq(s, 1, k - 1)>> \o SplitColon(SubSeq(s, k + 1, Len(s)))
    ELSE <<s>>

\* _timestr_to_time that never parses its argument.
timestr_to_time_unparsed(timestr) == <<>>

\* _timestr_to_time with the default timezone_str = "UTC": the wall-clock
\* time the three fields spell, <<>> (None) when a field is missing.
timestr_to_time(timestr) ==
    LET parts == SplitColon(timestr)
    IN  IF Len(parts) < 3 THEN <<>>
        ELSE <<int(parts[1]), int(parts[2]), int(parts[3])>>

\* ------------------------------------------------------------- scheduler
get_job(js, id, g) == {j \in js : j.id = id /\ j.guild = g}

\* _remove_remind_job that leaves the job in the store.
remove_remind_job_noop(js, g) == js

remove_remind_job(js, g) ==
    IF get_job(js, "remind", g) # {} THEN js \ get_job(js, "remind", g) ELSE js

\* _add_remind_job that does not remove the job already stored.
add_remind_job_keeps_old(js, g, remind_time) == js \cup {RemindJob(g, remind_time)}

add_remind_job(js, g, remind_time) ==
    LET js1 == IF get_job(js, "remind", g) # {} THEN remove_remind_job(js, g) ELSE js
    IN  js1 \cup {RemindJob(g, remind_time)}

\* ------------------------------------------------------------ db_session
\* The scoped transaction a handler runs in: what is flushed but not yet
\* committed is committed when the scope is left normally and rolled back
\* when it is left by an exception.
db_session_exit(committed, pending, raised) ==
    IF raised THEN committed ELSE pending

\* -------------------------------------------------------------- commands
Timezones == {"UTC", "Asia/Tokyo", "Mars/Phobos"}
common_timezones_set == {"UTC", "Asia/Tokyo"}
Cookies == {"c1"}

Config(g) == CHOOSE c \in leetcode_guild_configs : c.guild_id = g
HasConfig(g) == get_leetcode_config(leetcode_guild_configs, g) # {}

\* An update of one column that also resets daily_challenge_date.
SetConfig_resets_date(configs, g, field, value) ==
    {IF c.guild_id = g
     THEN [[c EXCEPT !.daily_challenge_date = <<>>] EXCEPT ![field] = value]
     ELSE c : c \in configs}

SetConfig(configs, g, field, value) ==
    {IF c.guild_id = g THEN [c EXCEPT ![field] = value] ELSE c : c \in configs}

Rejected(reply) ==
    /\ out' = reply
    /\ UNCHANGED <<now, import_day, leetcode_guild_configs, leetcode_members,
                   leetcode_questions, leetcode_submissions, jobs, platform, cleaning, submitting, http_sessions>>

\* ------------------------------------------------------- the HTTP sessions
\* http_sessions[g] is <<>> while the guild has no cached session, else the
\* session: jar is the LEETCODE_SESSION cookie it carries ("" none) and
\* creator tells whether the call that created it still waits for the
\* guild's config ("loading") or has finished ("done").
NoSession == <<>>
Session(jar, creator) == [jar |-> jar, creator |-> creator]

\* cookie = config.cookie if config else None
StoredCookie(configs, g) ==
    IF get_leetcode_config(configs, g) = {} THEN ""
    ELSE (CHOOSE c \in get_leetcode_config(configs, g) : TRUE).cookie

\* _get_http_session run with no other handler in between: the cache after
\* the call.  A cached session is returned as it is.
get_http_session(sessions, configs, g) ==
    IF sessions[g] # NoSession THEN sessions
    ELSE [sessions EXCEPT ![g] = Session(StoredCookie(configs, g), "done")]

\* _get_http_session of a guild without cached session, up to its await of
\* the database: the new session is in the cache, its cookie jar is empty.
get_http_session_first(g) ==
    /\ http_sessions[g] = NoSession
    /\ http_sessions' = [http_sessions EXCEPT ![g] = Session("", "loading")]
    /\ out' = NoOut
    /\ UNCHANGED <<now, import_day, leetcode_guild_configs, leetcode_members,
                   leetcode_questions, leetcode_submissions, jobs, platform,
                   cleaning, submitting>>

\* The creating call resumes: it puts the stored cookie, if there is one,
\* into the jar and returns the session.
get_http_session_loaded(g) ==
    /\ http_sessions[g] # NoSession
    /\ http_sessions[g].creator = "loading"
    /\ LET cookie == StoredCookie(leetcode_guild_configs, g)
       IN  /\ http_sessions' = [http_sessions EXCEPT ![g] = Session(cookie, "done")]
           /\ out' = Reply("http_session", g, 0, 0, "created", <<cookie>>, 0, <<>>)
    /\ UNCHANGED <<now, import_day, leetcode_guild_configs, leetcode_members,
                   leetcode_questions, leetcode_submissions, jobs, platform,
                   cleaning, submitting>>

\* _get_http_session of a guild whose session is in the cache: the session
\* is returned as it is.
get_http_session_cached(g) ==
    /\ http_sessions[g] # NoSession
    /\ Rejected(Reply("http_session", g, 0, 0, "cached", <<http_sessions[g].jar>>, 0, <<>>))

\* A handler that raises after it obtained the guild's HTTP session.
RejectedWithSession(reply, g) ==
    /\ out' = reply
    /\ http_sessions' = get_http_session(http_sessions, leetcode_guild_configs, g)
    /\ UNCHANGED <<now, import_day, leetcode_guild_configs, leetcode_members,
                   leetcode_questions, leetcode_submissions, jobs, platform,
                   cleaning, submitting>>

\* leetcode_init without the look-up of an existing configuration.
leetcode_init_no_config_check(g, cookie, guild_timezone) ==
    /\ platform[g].present
    /\ platform[g].channel # "missing"
    /\ IF guild_timezone \notin common_timezones_set
       THEN Rejected(Reply("init", g, 0, 400, "unknown_timezone", <<>>, 0, <<>>))
       ELSE IF platform[g].role
       THEN Rejected(Reply("init", g, 0, 400, "role_exists", <<>>, 0, <<>>))
       ELSE /\ platform' = [platform EXCEPT ![g].role = TRUE]
            /\ leetcode_guild_configs' = leetcode_guild_configs \cup
                   {[guild_id |-> g, role_id |-> g, cookie |-> cookie,
                     notification_channel_id |-> g,
                     daily_challenge_on |-> TRUE,
                     remind_time |-> DefaultRemindTime,
                     guild_timezone |-> guild_timezone,
                     daily_challenge_date |-> <<>>]}
            /\ jobs' = add_remind_job(jobs, g, <<23, 0, 0>>)
            /\ http_sessions' =
                   get_http_session(http_sessions, leetcode_guild_configs', g)
            /\ out' = IF platform[g].channel = "ok"
                      THEN Reply("init", g, 0, 0, "", <<>>, 0, <<Message(g, "info", {})>>)
                      ELSE Reply("init", g, 0, 500, "Forbidden", <<>>, 0, <<>>)
            /\ UNCHANGED <<now, import_day, leetcode_members, leetcode_questions,
                           leetcode_submissions, cleaning, submitting>>

\* After the commit leetcode_init builds the info embed, which obtains the
\* guild's HTTP session to ask the site for the cookie status (the site is
\* taken not to rotate the cookie), and sends it to the channel.
leetcode_init(g, cookie, guild_timezone) ==
    /\ platform[g].present
    /\ platform[g].channel # "missing"
    /\ IF guild_timezone \notin common_timezones_set
       THEN Rejected(Reply("init", g, 0, 400, "unknown_timezone", <<>>, 0, <<>>))
       ELSE IF HasConfig(g)
       THEN Rejected(Reply("init", g, 0, 400, "already_initialized", <<>>, 0, <<>>))
       ELSE IF platform[g].role
       THEN Rejected(Reply("init", g, 0, 400, "role_exists", <<>>, 0, <<>>))
       ELSE /\ platform' = [platform EXCEPT ![g].role = TRUE]
            /\ leetcode_guild_configs' = leetcode_guild_configs \cup
                   {[guild_id |-> g, role_id |-> g, cookie |-> cookie,
                     notification_channel_id |-> g,
                     daily_challenge_on |-> TRUE,
                     remind_time |-> DefaultRemindTime,
                     guild_timezone |-> guild_timezone,
                     daily_challenge_date |-> <<>>]}
            /\ jobs' = add_remind_job(jobs, g, <<23, 0, 0>>)
            /\ http_sessions' =
                   get_http_session(http_sessions, leetcode_guild_configs', g)
            /\ out' = IF platform[g].channel = "ok"
                      THEN Reply("init", g, 0, 0, "", <<>>, 0, <<Message(g, "info", {})>>)
                      ELSE Reply("init", g, 0, 500, "Forbidden", <<>>, 0, <<>>)
            /\ UNCHANGED <<now, import_day, leetcode_members, leetcode_questions,
                           leetcode_submissions, cleaning, submitting>>

\* session.delete(leetcode_config) and the flush of session.commit().
\* GuildConfig.members is a relationship() with neither a delete cascade nor
\* passive_deletes, so the flush loads the guild's Member rows to blank their
\* guild_id; guild_id is a primary-key column of Member and the flush raises
\* AssertionError.  With no Member row the DELETE is issued (a row that is
\* already gone only draws a warning) and ondelete="CASCADE" removes the rows
\* that reference the guild.
delete_guild_config(configs, members, submissions, g) ==
    IF get_guild_members(members, g) # {}
    THEN [configs |-> configs, members |-> members,
          submissions |-> submissions, raised |-> TRUE]
    ELSE [configs |-> {c \in configs : c.guild_id # g},
          members |-> CascadeMembers(members, g),
          submissions |-> CascadeSubmissionsOfGuild(submissions, g),
          raised |-> FALSE]

RoleDeleteOutcomes == {"ok", "Forbidden", "HTTPException"}

\* leetcode_clean from _delete_role on: the role is deleted on the platform,
\* then the configuration is deleted and committed.
clean_tail(g, role_delete) ==
    IF platform[g].role /\ role_delete # "ok"
    THEN /\ out' = Reply("clean", g, 0,
                         IF role_delete = "Forbidden" THEN 403 ELSE 500,
                         "delete_role_failed", <<>>, 0, <<>>)
         /\ UNCHANGED <<now, import_day, leetcode_guild_configs, leetcode_members,
                        leetcode_questions, leetcode_submissions, platform>>
    ELSE LET del == delete_guild_config(leetcode_guild_configs, leetcode_members,
                                        leetcode_submissions, g)
         IN  /\ platform' = [platform EXCEPT ![g].role = FALSE]
             /\ leetcode_guild_configs' = del.configs
             /\ leetcode_members' = del.members
             /\ leetcode_submissions' = del.submissions
             /\ out' = IF del.raised
                       THEN Reply("clean", g, 0, 500, "AssertionError", <<>>, 0, <<>>)
                       ELSE Reply("clean", g, 0, 0, "", <<>>, 0, <<>>)
             /\ UNCHANGED <<now, import_day, leetcode_questions>>

\* leetcode_clean run with no other handler in between.
leetcode_clean(g, role_delete) ==
    /\ platform[g].present
    /\ IF ~HasConfig(g)
       THEN Rejected(Reply("clean", g, 0, 404, "not_initialized", <<>>, 0, <<>>))
       ELSE /\ jobs' = remove_remind_job(jobs, g)
            /\ cleaning' = cleaning
            /\ UNCHANGED <<submitting, http_sessions>>
            /\ clean_tail(g, role_delete)

\* leetcode_clean up to its first await after _remove_remind_job: the job is
\* gone, the handler waits for the platform and the database.
leetcode_clean_suspend(g) ==
    /\ platform[g].present
    /\ HasConfig(g)
    /\ g \notin cleaning
    /\ jobs' = remove_remind_job(jobs, g)
    /\ cleaning' = cleaning \cup {g}
    /\ UNCHANGED <<submitting, http_sessions>>
    /\ out' = NoOut
    /\ UNCHANGED <<now, import_day, leetcode_guild_configs, leetcode_members,
                   leetcode_questions, leetcode_submissions, platform>>

\* The suspended leetcode_clean runs to its end.
leetcode_clean_resume(g, role_delete) ==
    /\ g \in cleaning
    /\ cleaning' = cleaning \ {g}
    /\ UNCHANGED <<submitting, http_sessions>>
    /\ jobs' = jobs
    /\ clean_tail(g, role_delete)

leetcode_start(g) ==
    /\ platform[g].present
    /\ IF ~HasConfig(g)
       THEN Rejected(Reply("start", g, 0, 404, "not_initialized", <<>>, 0, <<>>))
       ELSE IF Config(g).daily_challenge_on
       THEN Rejected(Reply("start", g, 0, 400, "already_started", <<>>, 0, <<>>))
       ELSE LET remind_time == timestr_to_time(Config(g).remind_time)
            IN  /\ leetcode_guild_configs' =
                       SetConfig(leetcode_guild_configs, g, "daily_challenge_on", TRUE)
                /\ jobs' = add_remind_job(jobs, g,
                               IF remind_time # <<>> THEN remind_time ELSE <<23, 0, 0>>)
                /\ out' = Reply("start", g, 0, 0, "", <<>>, 0, <<>>)
                /\ UNCHANGED <<now, import_day, leetcode_members, leetcode_questions,
                               leetcode_submissions, platform, cleaning, submitting, http_sessions>>

leetcode_stop(g) ==
    /\ platform[g].present
    /\ IF ~HasConfig(g)
       THEN Rejected(Reply("stop", g, 0, 404, "not_initialized", <<>>, 0, <<>>))
       ELSE IF ~Config(g).daily_challenge_on
       THEN Rejected(Reply("stop", g, 0, 400, "already_stopped", <<>>, 0, <<>>))
       ELSE /\ leetcode_guild_configs' =
                   SetConfig(leetcode_guild_configs, g, "daily_challenge_on", FALSE)
            /\ jobs' = remove_remind_job(jobs, g)
            /\ out' = Reply("stop", g, 0, 0, "", <<>>, 0, <<>>)
            /\ UNCHANGED <<now, import_day, leetcode_members, leetcode_questions,
                           leetcode_submissions, platform, cleaning, submitting, http_sessions>>

RemindHours == {-1, 0, 23, 24}
RemindMinutes == {0, 59, 60}
RemindSeconds == {0, 59, 60}

\* The range checks of leetcode_remind_time with hour 24 let through.
RemindTimeCheck_hour_24(hour, minute, second) ==
    IF ~(0 <= hour /\ hour <= 24) THEN "bad_hour"
    ELSE IF ~(0 <= minute /\ minute <= 59) \/ ~(0 <= second /\ second <= 59)
    THEN "bad_minute_second"
    ELSE ""

\* if not 0 <= hour <= 23 / if not 0 <= minute <= 59 or not 0 <= second <= 59
RemindTimeCheck(hour, minute, second) ==
    IF ~(0 <= hour /\ hour <= 23) THEN "bad_hour"
    ELSE IF ~(0 <= minute /\ minute <= 59) \/ ~(0 <= second /\ second <= 59)
    THEN "bad_minute_second"
    ELSE ""

leetcode_remind_time(g, hour, minute, second) ==
    LET Call(reply) == Given(reply, <<hour, minute, second>>, <<>>)
        check == RemindTimeCheck(hour, minute, second)
    IN  /\ platform[g].present
        /\ IF check # ""
           THEN Rejected(Call(Reply("remind_time", g, 0, 400, check, <<>>, 0, <<>>)))
           ELSE IF ~HasConfig(g)
           THEN Rejected(Call(Reply("remind_time", g, 0, 404, "not_initialized",
                                    <<>>, 0, <<>>)))
           ELSE /\ leetcode_guild_configs' =
                       SetConfig(leetcode_guild_configs, g, "remind_time",
                                 TimeStr(hour, minute, second))
                /\ jobs' = add_remind_job(remove_remind_job(jobs, g), g,
                                          <<hour, minute, second>>)
                /\ out' = Call(Reply("remind_time", g, 0, 0, "", <<>>, 0, <<>>))
                /\ UNCHANGED <<now, import_day, leetcode_members, leetcode_questions,
                               leetcode_submissions, platform, cleaning, submitting, http_sessions>>

\* leetcode_join without the look-up of the caller's Member row.
leetcode_join_no_member_check(g, u) ==
    /\ platform[g].present
    /\ IF ~HasConfig(g)
       THEN Rejected(Reply("join", g, u, 404, "not_initialized", <<>>, 0, <<>>))
       ELSE IF ~platform[g].role
       THEN Rejected(Reply("join", g, u, 404, "role_missing", <<>>, 0, <<>>))
       ELSE /\ leetcode_members' = leetcode_members \cup
                                       {[guild_id |-> g, user_id |-> u]}
            /\ out' = Reply("join", g, u, 0, "", <<>>, 0, <<>>)
            /\ UNCHANGED <<now, import_day, leetcode_guild_configs, leetcode_questions,
                           leetcode_submissions, jobs, platform, cleaning, submitting, http_sessions>>

leetcode_join(g, u) ==
    /\ platform[g].present
    /\ IF ~HasConfig(g)
       THEN Rejected(Reply("join", g, u, 404, "not_initialized", <<>>, 0, <<>>))
       ELSE IF get_member_by_guild_user(leetcode_members, g, u) # {}
       THEN Rejected(Reply("join", g, u, 400, "already_joined", <<>>, 0, <<>>))
       ELSE IF ~platform[g].role
       THEN Rejected(Reply("join", g, u, 404, "role_missing", <<>>, 0, <<>>))
       ELSE /\ leetcode_members' = leetcode_members \cup
                                       {[guild_id |-> g, user_id |-> u]}
            /\ out' = Reply("join", g, u, 0, "", <<>>, 0, <<>>)
            /\ UNCHANGED <<now, import_day, leetcode_guild_configs, leetcode_questions,
                           leetcode_submissions, jobs, platform, cleaning, submitting, http_sessions>>

leetcode_quit(g, u) ==
    /\ platform[g].present
    /\ IF ~HasConfig(g)
       THEN Rejected(Reply("quit", g, u, 404, "not_initialized", <<>>, 0, <<>>))
       ELSE IF get_member_by_guild_user(leetcode_members, g, u) = {}
       THEN Rejected(Reply("quit", g, u, 400, "not_joined", <<>>, 0, <<>>))
       ELSE IF ~platform[g].role
       THEN Rejected(Reply("quit", g, u, 404, "role_missing", <<>>, 0, <<>>))
       ELSE /\ leetcode_members' =
                   leetcode_members \ get_member_by_guild_user(leetcode_members, g, u)
            /\ leetcode_submissions' =
                   CascadeSubmissionsOfMember(leetcode_submissions, <<g, u>>)
            /\ out' = Reply("quit", g, u, 0, "", <<>>, 0, <<>>)
            /\ UNCHANGED <<now, import_day, leetcode_guild_configs, leetcode_questions,
                           jobs, platform, cleaning, submitting, http_sessions>>

\* channel_id as typed: "0" falls back to the channel of the interaction;
\* each guild g has the one text channel g.
ChannelIdInputs == {<<"0">>, <<"1">>, <<"2">>, <<"x">>, <<>>}

\* str.isdigit()
isdigit(s) == Len(s) > 0 /\ \A i \in 1..Len(s) : IsDigit(s[i])

\* interaction.guild.get_channel(int(channel_id) or interaction.channel_id):
\* <<>> when the guild has no such text channel.
get_channel(g, id) ==
    LET wanted == IF id # 0 THEN id ELSE g
    IN  IF wanted = g /\ platform[g].channel # "missing" THEN <<g>> ELSE <<>>

leetcode_channel(g, channel_id) ==
    LET Call(reply) == Given(reply, channel_id, <<>>)
        channel == get_channel(g, int(channel_id))
    IN  /\ platform[g].present
        /\ IF ~isdigit(channel_id)
           THEN Rejected(Call(Reply("channel", g, 0, 400, "not_an_integer", <<>>, 0, <<>>)))
           ELSE IF channel = <<>>
           THEN Rejected(Call(Reply("channel", g, 0, 400, "not_a_text_channel",
                                    <<>>, 0, <<>>)))
           ELSE IF platform[g].channel # "ok"
           THEN Rejected(Call(Reply("channel", g, 0, 403, "no_send_permission",
                                    <<>>, 0, <<>>)))
           ELSE IF ~HasConfig(g)
           THEN Rejected(Call(Reply("channel", g, 0, 404, "not_initialized",
                                    <<>>, 0, <<>>)))
           ELSE /\ leetcode_guild_configs' =
                       SetConfig(leetcode_guild_configs, g, "notification_channel_id",
                                 channel[1])
                /\ out' = Call(Reply("channel", g, 0, 0, "", <<channel[1]>>, 0, <<>>))
                /\ UNCHANGED <<now, import_day, leetcode_members, leetcode_questions,
                               leetcode_submissions, jobs, platform, cleaning, submitting, http_sessions>>

leetcode_timezone(g, guild_timezone) ==
    LET Call(reply) == Given(reply, <<guild_timezone>>, <<>>)
    IN  /\ platform[g].present
        /\ IF guild_timezone \notin common_timezones_set
           THEN Rejected(Call(Reply("timezone", g, 0, 400, "unknown_timezone",
                                    <<>>, 0, <<>>)))
           ELSE IF ~HasConfig(g)
           THEN Rejected(Call(Reply("timezone", g, 0, 404, "not_initialized",
                                    <<>>, 0, <<>>)))
           ELSE /\ leetcode_guild_configs' =
                       SetConfig(leetcode_guild_configs, g, "guild_timezone",
                                 guild_timezone)
                /\ out' = Call(Reply("timezone", g, 0, 0, "", <<>>, 0, <<>>))
                /\ UNCHANGED <<now, import_day, leetcode_members, leetcode_questions,
                               leetcode_submissions, jobs, platform, cleaning, submitting, http_sessions>>

\* https://leetcode.com/api/problems/all: the site's question catalogue
\* (frontend_question_id, difficulty level, paid_only).
SiteQuestions ==
    { [id |-> 1, title |-> SiteTitle(1), title_slug |-> SiteSlug(1),
       difficulty |-> 1, paid_only |-> TRUE],
      [id |-> 2, title |-> SiteTitle(2), title_slug |-> SiteSlug(2),
       difficulty |-> 3, paid_only |-> TRUE] }

\* The loop of leetcode_update that leaves a cached row as it is.
upsert_questions_insert_only(questions, site) ==
    questions \cup {sq \in site : get_question_by_id(questions, sq.id) = {}}

\* The loop of leetcode_update: a cached row with the id takes the site's
\* values, an id not cached is added.
upsert_questions(questions, site) ==
    {q \in questions : get_question_by_id(site, q.id) = {}} \cup site

UpdateResponses == {"ok", "403", "http_error"}

leetcode_update(g, response) ==
    LET Call(reply) == Given(reply, <<>>, <<response>>)
    IN  /\ platform[g].present
        /\ IF ~HasConfig(g)
           THEN Rejected(Call(Reply("update", g, 0, 404, "not_initialized", <<>>, 0, <<>>)))
           ELSE IF response = "403"
           THEN RejectedWithSession(
                    Call(Reply("update", g, 0, 403, "cookie_invalid", <<>>, 1, <<>>)), g)
           ELSE IF response # "ok"
           THEN RejectedWithSession(
                    Call(Reply("update", g, 0, 400, "fetch_failed", <<>>, 1, <<>>)), g)
           ELSE /\ leetcode_questions' =
                       upsert_questions(leetcode_questions, SiteQuestions)
                /\ out' = Call(Reply("update", g, 0, 0, "",
                                     <<Cardinality(SiteQuestions)>>, 1, <<>>))
                /\ http_sessions' =
                       get_http_session(http_sessions, leetcode_guild_configs, g)
                /\ UNCHANGED <<now, import_day, leetcode_guild_configs, leetcode_members,
                               leetcode_submissions, jobs, platform, cleaning, submitting>>

\* ---------------------------------------------------------------- submit
SubmissionDetails(submission_id) ==
    IF submission_id \in 1..Len(SiteSubmissions)
    THEN <<SiteSubmissions[submission_id]>>
    ELSE <<>>

\* _difficulty_display_to_int that falls back to 1 for a label it does not know.
difficulty_display_to_int_default_easy(difficulty_display) ==
    IF difficulty_display = "Medium" THEN 2
    ELSE IF difficulty_display = "Hard" THEN 3
    ELSE 1

\* _difficulty_display_to_int; 0 stands for the ValueError it raises.
difficulty_display_to_int(difficulty_display) ==
    IF difficulty_display = "Easy" THEN 1
    ELSE IF difficulty_display = "Medium" THEN 2
    ELSE IF difficulty_display = "Hard" THEN 3
    ELSE 0

NewSubmission(submission_id, g, u, question_id) ==
    [submission_id |-> submission_id, guild_id |-> g, user_id |-> u,
     question_id |-> question_id, created_at |-> SubmissionCreatedAtDefault]

\* SubmitLocalCheck that does not look at the notification channel.
SubmitLocalCheck_no_channel_check(g, u, digits) ==
    IF digits = <<>> THEN [status |-> 400, error |-> "no_submission_id"]
    ELSE IF ~HasConfig(g) THEN [status |-> 404, error |-> "not_initialized"]
    ELSE IF ~Config(g).daily_challenge_on THEN [status |-> 400, error |-> "not_enabled"]
    ELSE IF get_member_by_guild_user(leetcode_members, g, u) = {}
         THEN [status |-> 400, error |-> "not_joined"]
    ELSE [status |-> 0, error |-> ""]

\* SubmitLocalCheck with the membership check ahead of the enabled check.
SubmitLocalCheck_member_first(g, u, digits) ==
    IF digits = <<>> THEN [status |-> 400, error |-> "no_submission_id"]
    ELSE IF ~HasConfig(g) THEN [status |-> 404, error |-> "not_initialized"]
    ELSE IF get_member_by_guild_user(leetcode_members, g, u) = {}
         THEN [status |-> 400, error |-> "not_joined"]
    ELSE IF ~Config(g).daily_challenge_on THEN [status |-> 400, error |-> "not_enabled"]
    ELSE IF platform[g].channel = "missing"
         THEN [status |-> 404, error |-> "channel_not_found"]
    ELSE IF platform[g].channel # "ok"
         THEN [status |-> 403, error |-> "no_send_permission"]
    ELSE [status |-> 0, error |-> ""]

\* The checks of leetcode_submit that need no external call, in order:
\* the error the first failing one raises, or "" when all pass.
SubmitLocalCheck(g, u, digits) ==
    IF digits = <<>> THEN [status |-> 400, error |-> "no_submission_id"]
    ELSE IF ~HasConfig(g) THEN [status |-> 404, error |-> "not_initialized"]
    ELSE IF ~Config(g).daily_challenge_on THEN [status |-> 400, error |-> "not_enabled"]
    ELSE IF get_member_by_guild_user(leetcode_members, g, u) = {}
         THEN [status |-> 400, error |-> "not_joined"]
    ELSE IF platform[g].channel = "missing"
         THEN [status |-> 404, error |-> "channel_not_found"]
    ELSE IF platform[g].channel # "ok"
         THEN [status |-> 403, error |-> "no_send_permission"]
    ELSE [status |-> 0, error |-> ""]

get_status_display(status_code) ==
    IF status_code = 10 THEN "Accepted"
    ELSE IF status_code = 11 THEN "Wrong Answer"
    ELSE IF status_code = 12 THEN "Memory Limit Exceeded"
    ELSE IF status_code = 13 THEN "Output Limit Exceeded"
    ELSE IF status_code = 14 THEN "Time Limit Exceeded"
    ELSE IF status_code = 15 THEN "Runtime Error"
    ELSE IF status_code = 16 THEN "Internal Error"
    ELSE IF status_code = 17 THEN "Compile Error"
    ELSE IF status_code = 18 THEN "Timeout"
    ELSE "Unknown Status"

\* SubmitVerdict that rejects only the status codes it has a name for.
SubmitVerdict_unknown_status_passes(submission_details, question_of_today) ==
    IF submission_details.question # question_of_today.question
    THEN [status |-> 400, error |-> "wrong_question",
          detail |-> <<submission_details.question, question_of_today.question>>]
    ELSE IF utc_day(submission_details.timestamp) # question_of_today.date
    THEN [status |-> 400, error |-> "not_today", detail |-> <<>>]
    ELSE IF submission_details.statusCode \in 11..18
    THEN [status |-> 400, error |-> "not_accepted",
          detail |-> <<get_status_display(submission_details.statusCode)>>]
    ELSE [status |-> 0, error |-> "", detail |-> <<>>]

\* SubmitVerdict without the calendar-day comparison.
SubmitVerdict_no_day_check(submission_details, question_of_today) ==
    IF submission_details.question # question_of_today.question
    THEN [status |-> 400, error |-> "wrong_question",
          detail |-> <<submission_details.question, question_of_today.question>>]
    ELSE IF submission_details.statusCode # 10
    THEN [status |-> 400, error |-> "not_accepted",
          detail |-> <<get_status_display(submission_details.statusCode)>>]
    ELSE [status |-> 0, error |-> "", detail |-> <<>>]

\* SubmitVerdict without the question-id comparison.
SubmitVerdict_no_question_check(submission_details, question_of_today) ==
    IF utc_day(submission_details.timestamp) # question_of_today.date
    THEN [status |-> 400, error |-> "not_today", detail |-> <<>>]
    ELSE IF submission_details.statusCode # 10
    THEN [status |-> 400, error |-> "not_accepted",
          detail |-> <<get_status_display(submission_details.statusCode)>>]
    ELSE [status |-> 0, error |-> "", detail |-> <<>>]

\* The comparisons of leetcode_submit on the fetched records, in order:
\* question id, calendar day, status code.
SubmitVerdict(submission_details, question_of_today) ==
    IF submission_details.question # question_of_today.question
    THEN [status |-> 400, error |-> "wrong_question",
          detail |-> <<submission_details.question, question_of_today.question>>]
    ELSE IF utc_day(submission_details.timestamp) # question_of_today.date
    THEN [status |-> 400, error |-> "not_today", detail |-> <<>>]
    ELSE IF submission_details.statusCode # 10
    THEN [status |-> 400, error |-> "not_accepted",
          detail |-> <<get_status_display(submission_details.statusCode)>>]
    ELSE [status |-> 0, error |-> "", detail |-> <<>>]

\* What the two sends after the commit do: the private acknowledgement
\* (interaction.followup.send) and then the announcement (channel.send).
SendResponses == {"ok", "ack_failed", "announce_failed"}

\* SubmitSends with the announcement ahead of the acknowledgement.
SubmitSends_announce_first(g, u, send_response) ==
    IF send_response = "announce_failed" THEN <<>>
    ELSE IF send_response = "ack_failed" THEN <<Message(g, "submission", {u})>>
    ELSE <<Message(g, "submission", {u}), Message(0, "ack", {u})>>

\* The messages that went out, in order; a send that raises ends the handler.
SubmitSends(g, u, send_response) ==
    IF send_response = "ack_failed" THEN <<>>
    ELSE IF send_response = "announce_failed" THEN <<Message(0, "ack", {u})>>
    ELSE <<Message(0, "ack", {u}), Message(g, "submission", {u})>>

leetcode_submit(g, u, link_or_id, daily_response, submission_response, send_response) ==
    LET digits == re_search_digits(link_or_id)
        submission_id == int(digits)
        local == SubmitLocalCheck(g, u, digits)
        question_of_today == [date |-> now, question |-> QuestionOfDay(now)]
        found == SubmissionDetails(submission_id)
        submission_details == found[1]
        verdict == SubmitVerdict(submission_details, question_of_today)
        member_id == <<g, u>>
        db_submission == get_submission(leetcode_submissions, member_id, submission_id)
        question_id == submission_details.question
        db_question == get_question_by_id(leetcode_questions, question_id)
        difficulty == difficulty_display_to_int(submission_details.difficulty)
        row == NewSubmission(submission_id, g, u, question_id)
        Call(reply) == Given(reply, link_or_id,
                             <<daily_response, submission_response, send_response>>)
        Fail(status, error, detail, api) ==
            IF api = 0
            THEN Rejected(Call(Reply("submit", g, u, status, error, detail, api, <<>>)))
            ELSE RejectedWithSession(
                     Call(Reply("submit", g, u, status, error, detail, api, <<>>)), g)
    IN
    /\ platform[g].present
    /\ IF local.error # "" THEN Fail(local.status, local.error, <<>>, 0)
       ELSE IF daily_response = "http_error" THEN Fail(400, "daily_fetch_failed", <<>>, 1)
       ELSE IF daily_response = "null" THEN Fail(404, "daily_not_found", <<>>, 1)
       ELSE IF submission_response = "http_error"
            THEN Fail(400, "submission_fetch_failed", <<>>, 2)
       ELSE IF submission_response = "null" \/ found = <<>>
            THEN Fail(404, "submission_not_found", <<>>, 2)
       ELSE IF verdict.error # ""
            THEN Fail(verdict.status, verdict.error, verdict.detail, 2)
       ELSE IF db_submission # {}
            THEN IF get_member(leetcode_members,
                               SubmissionMemberId(CHOOSE s \in db_submission : TRUE)) = {}
                 THEN Fail(404, "already_submitted_unknown_member", <<>>, 2)
                 ELSE Fail(400, "already_submitted",
                           <<(CHOOSE s \in db_submission : TRUE).user_id>>, 2)
       ELSE IF db_question = {} /\ difficulty = 0
            THEN Fail(500, "ValueError", <<>>, 2)
       ELSE IF \E s \in leetcode_submissions : SubmissionKey(s) = SubmissionKey(row)
            THEN Fail(500, "IntegrityError", <<>>, 2)
       ELSE /\ leetcode_questions' =
                   IF db_question = {}
                   THEN leetcode_questions \cup
                            {[id |-> question_id,
                              title |-> SiteTitle(question_id),
                              title_slug |-> SiteSlug(question_id),
                              difficulty |-> difficulty,
                              paid_only |-> FALSE]}
                   ELSE leetcode_questions
            /\ leetcode_submissions' = leetcode_submissions \cup {row}
            /\ out' = Call(Reply("submit", g, u,
                                 IF send_response = "ok" THEN 0 ELSE 500,
                                 IF send_response = "ok" THEN "" ELSE "HTTPException",
                                 <<submission_id>>, 2,
                                 SubmitSends(g, u, send_response)))
            /\ http_sessions' =
                   get_http_session(http_sessions, leetcode_guild_configs, g)
            /\ UNCHANGED <<now, import_day, leetcode_guild_configs, leetcode_members,
                           jobs, platform, cleaning, submitting>>

\* leetcode_submit up to its first await of the submissions table (await
\* crud.get_submission): the local checks, both fetches and the comparisons
\* with the challenge of the day have passed; the call waits for the
\* database with what it fetched, validated holds the day of the challenge
\* it was compared with.
leetcode_submit_suspend(g, u, link_or_id) ==
    LET digits == re_search_digits(link_or_id)
        submission_id == int(digits)
        local == SubmitLocalCheck(g, u, digits)
        question_of_today == [date |-> now, question |-> QuestionOfDay(now)]
        found == SubmissionDetails(submission_id)
    IN
    /\ platform[g].present
    /\ local.error = ""
    /\ found # <<>>
    /\ SubmitVerdict(found[1], question_of_today).error = ""
    /\ \A c \in submitting : ~(c.guild = g /\ c.user = u)
    /\ submitting' = submitting \cup
           {[guild |-> g, user |-> u, arg |-> link_or_id,
             submission_id |-> submission_id,
             submission_details |-> found[1], validated |-> now]}
    /\ http_sessions' = get_http_session(http_sessions, leetcode_guild_configs, g)
    /\ out' = NoOut
    /\ UNCHANGED <<now, import_day, leetcode_guild_configs, leetcode_members,
                   leetcode_questions, leetcode_submissions, jobs, platform, cleaning>>

\* The suspended leetcode_submit runs to its end against the tables as they
\* are now: duplicate check, question upsert, add, commit and the two sends.
leetcode_submit_resume(call) ==
    LET g == call.guild
        u == call.user
        submission_id == call.submission_id
        submission_details == call.submission_details
        db_submission == get_submission(leetcode_submissions, <<g, u>>, submission_id)
        question_id == submission_details.question
        db_question == get_question_by_id(leetcode_questions, question_id)
        difficulty == difficulty_display_to_int(submission_details.difficulty)
        row == NewSubmission(submission_id, g, u, question_id)
        Fail(status, error, detail) ==
            /\ out' = Given(Reply("submit", g, u, status, error, detail, 2, <<>>),
                            call.arg, <<"ok", "ok", "ok">>)
            /\ UNCHANGED <<leetcode_questions, leetcode_submissions>>
    IN
    /\ call \in submitting
    /\ submitting' = submitting \ {call}
    /\ IF db_submission # {}
       THEN IF get_member(leetcode_members,
                          SubmissionMemberId(CHOOSE s \in db_submission : TRUE)) = {}
            THEN Fail(404, "already_submitted_unknown_member", <<>>)
            ELSE Fail(400, "already_submitted",
                      <<(CHOOSE s \in db_submission : TRUE).user_id>>)
       ELSE IF db_question = {} /\ difficulty = 0
       THEN Fail(500, "ValueError", <<>>)
       ELSE IF \E s \in leetcode_submissions : SubmissionKey(s) = SubmissionKey(row)
       THEN Fail(500, "IntegrityError", <<>>)
       ELSE /\ leetcode_questions' =
                   IF db_question = {}
                   THEN leetcode_questions \cup
                            {[id |-> question_id,
                              title |-> SiteTitle(question_id),
                              title_slug |-> SiteSlug(question_id),
                              difficulty |-> difficulty,
                              paid_only |-> FALSE]}
                   ELSE leetcode_questions
            /\ leetcode_submissions' = leetcode_submissions \cup {row}
            /\ out' = Given(Reply("submit", g, u, 0, "", <<submission_id>>, 2,
                                  SubmitSends(g, u, "ok")),
                            call.arg, <<"ok", "ok", "ok">>)
    /\ UNCHANGED <<now, import_day, leetcode_guild_configs, leetcode_members,
                   jobs, platform, cleaning, http_sessions>>

\* ---------------------------------------------------------- job handlers
QueryOrders(S) ==
    {f \in [1..Cardinality(S) -> S] : \A i, j \in 1..Cardinality(S) : f[i] = f[j] => i = j}

\* The for-loop of _daily_challenge_start over the enabled configs, taken in
\* the order the query returned them.  channel.send raises Forbidden where
\* the bot may not send; the exception ends the loop.
RECURSIVE StartLoop(_, _, _, _)
StartLoop(order, i, configs, sent) ==
    IF i > Len(order) THEN [configs |-> configs, sent |-> sent, raised |-> FALSE]
    ELSE LET g == order[i]
             dated == SetConfig(configs, g, "daily_challenge_date", <<now>>)
         IN  IF platform[g].channel = "missing"
             THEN StartLoop(order, i + 1, dated, sent)
             ELSE IF platform[g].channel # "ok"
             THEN [configs |-> dated, sent |-> sent, raised |-> TRUE]
             ELSE StartLoop(order, i + 1, dated,
                            sent \o <<Message(g, "announcement", {}),
                                      Message(g, "new_challenge", {})>>)

\* StartFetchFails that lets every response through.
StartFetchFails_ignored(response) == FALSE

\* if not response.ok: raise; a null challenge fails on data["date"].
StartFetchFails(response) == response # "ok"

daily_challenge_start(response, order) ==
    /\ get_job(jobs, "daily-challenge-start", 0) # {}
    /\ IF StartFetchFails(response)
       THEN Rejected(Given(Reply("start_of_day", 0, 0, 500, "fetch_failed", <<>>, 1, <<>>),
                           <<>>, <<response>>))
       ELSE LET run == StartLoop(order, 1, leetcode_guild_configs, <<>>)
            IN  /\ leetcode_guild_configs' =
                       db_session_exit(leetcode_guild_configs, run.configs, run.raised)
                /\ out' = Given(Reply("start_of_day", 0, 0,
                                      IF run.raised THEN 500 ELSE 0,
                                      IF run.raised THEN "Forbidden" ELSE "",
                                      <<now>>, 1, run.sent),
                                <<>>, <<response>>)
                /\ UNCHANGED <<now, import_day, leetcode_members, leetcode_questions,
                               leetcode_submissions, jobs, platform, cleaning, submitting, http_sessions>>

RemindMessage(g, today) ==
    Message(g, "remind",
            BagSet(get_uncompleted_user_ids(leetcode_submissions, leetcode_members,
                                            g, today)))

\* _daily_challenge_remind that looks at the role before the configuration.
RemindGate_role_first(g) ==
    IF platform[g].present /\ ~platform[g].role THEN "role_missing"
    ELSE IF ~HasConfig(g) THEN "no_config"
    ELSE IF ~platform[g].present THEN "guild_gone"
    ELSE IF platform[g].channel = "missing" \/ platform[g].channel = "ok"
    THEN "channel_missing_or_no_permission"
    ELSE "send"

\* The checks of _daily_challenge_remind in their order; the channel check
\* raises when the channel is missing or when the bot has send permission.
RemindGate(g) ==
    IF ~HasConfig(g) THEN "no_config"
    ELSE IF ~platform[g].present THEN "guild_gone"
    ELSE IF ~platform[g].role THEN "role_missing"
    ELSE IF platform[g].channel = "missing" \/ platform[g].channel = "ok"
    THEN "channel_missing_or_no_permission"
    ELSE "send"

daily_challenge_remind(g) ==
    /\ get_job(jobs, "remind", g) # {}
    /\ LET gate == RemindGate(g)
       IN  IF gate = "no_config"
       THEN /\ jobs' = remove_remind_job(jobs, g)
            /\ out' = Reply("remind", g, 0, 404, "no_config", <<>>, 0, <<>>)
            /\ UNCHANGED <<now, import_day, leetcode_guild_configs, leetcode_members,
                           leetcode_questions, leetcode_submissions, platform, cleaning, submitting, http_sessions>>
       ELSE IF gate = "guild_gone"
       THEN LET del == delete_guild_config(leetcode_guild_configs, leetcode_members,
                                           leetcode_submissions, g)
            IN  /\ jobs' = remove_remind_job(jobs, g)
                /\ leetcode_guild_configs' = del.configs
                /\ leetcode_members' = del.members
                /\ leetcode_submissions' = del.submissions
                /\ out' = IF del.raised
                          THEN Reply("remind", g, 0, 500, "AssertionError", <<>>, 0, <<>>)
                          ELSE Reply("remind", g, 0, 404, "guild_gone", <<>>, 0, <<>>)
                /\ UNCHANGED <<now, import_day, leetcode_questions, platform, cleaning, submitting, http_sessions>>
       ELSE IF gate = "role_missing" \/ gate = "channel_missing_or_no_permission"
       THEN /\ jobs' = remove_remind_job(jobs, g)
            /\ leetcode_guild_configs' =
                   SetConfig(leetcode_guild_configs, g, "daily_challenge_on", FALSE)
            /\ out' = Reply("remind", g, 0, IF gate = "role_missing" THEN 404 ELSE 400,
                            gate, <<>>, 0, <<>>)
            /\ UNCHANGED <<now, import_day, leetcode_members, leetcode_questions,
                           leetcode_submissions, platform, cleaning, submitting, http_sessions>>
       ELSE Rejected(Reply("remind", g, 0, 500, "Forbidden", <<>>, 0, <<>>))

\* The message _daily_challenge_end sends to a guild: the completed and the
\* uncompleted user ids of the guild's daily_challenge_date.
EndMessage(g) ==
    LET today == Config(g).daily_challenge_date
        completed == get_completed_user_ids(leetcode_submissions, leetcode_members,
                                            g, today)
        uncompleted == get_uncompleted_user_ids(leetcode_submissions, leetcode_members,
                                                g, today)
    IN  [channel |-> g, kind |-> "ended",
         users |-> BagSet(completed) \cup BagSet(uncompleted),
         completed |-> completed, uncompleted |-> uncompleted]

\* The for-loop of _daily_challenge_end: a guild without channel is skipped,
\* channel.send raises Forbidden where the bot may not send.
RECURSIVE EndLoop(_, _, _)
EndLoop(order, i, sent) ==
    IF i > Len(order) THEN [sent |-> sent, raised |-> FALSE]
    ELSE LET g == order[i]
         IN  IF platform[g].channel = "missing" THEN EndLoop(order, i + 1, sent)
             ELSE IF platform[g].channel # "ok" THEN [sent |-> sent, raised |-> TRUE]
             ELSE EndLoop(order, i + 1, sent \o <<EndMessage(g)>>)

daily_challenge_end(order) ==
    /\ get_job(jobs, "daily-challenge-end", 0) # {}
    /\ LET run == EndLoop(order, 1, <<>>)
       IN  Rejected(Reply("end_of_day", 0, 0,
                          IF run.raised THEN 500 ELSE 0,
                          IF run.raised THEN "Forbidden" ELSE "",
                          <<>>, 0, run.sent))

\* ----------------------------------------------------------- environment
RoleDeleted(g) ==
    /\ platform[g].present
    /\ platform[g].role
    /\ platform' = [platform EXCEPT ![g].role = FALSE]
    /\ out' = NoOut
    /\ UNCHANGED <<now, import_day, leetcode_guild_configs, leetcode_members,
                   leetcode_questions, leetcode_submissions, jobs, cleaning, submitting, http_sessions>>

ChannelStates == {"ok", "noperm", "missing"}

ChannelChanged(g, c) ==
    /\ platform[g].present
    /\ platform[g].channel # "missing"
    /\ platform[g].channel # c
    /\ platform' = [platform EXCEPT ![g].channel = c]
    /\ out' = NoOut
    /\ UNCHANGED <<now, import_day, leetcode_guild_configs, leetcode_members,
                   leetcode_questions, leetcode_submissions, jobs, cleaning, submitting, http_sessions>>

GuildRemoved(g) ==
    /\ platform[g].present
    /\ platform' = [platform EXCEPT ![g] =
                        [present |-> FALSE, role |-> FALSE, channel |-> "missing"]]
    /\ out' = NoOut
    /\ UNCHANGED <<now, import_day, leetcode_guild_configs, leetcode_members,
                   leetcode_questions, leetcode_submissions, jobs, cleaning, submitting, http_sessions>>

Tick ==
    /\ now < MaxDay
    /\ now' = now + 1
    /\ out' = NoOut
    /\ UNCHANGED <<import_day, leetcode_guild_configs, leetcode_members,
                   leetcode_questions, leetcode_submissions, jobs, platform, cleaning, submitting, http_sessions>>

\* add_job with no check for a stored job of that id.
ensure_job_always_adds(js, id, t) == js \cup {GlobalJob(id, t, now)}

\* if self.scheduler.get_job(id) is None: self.scheduler.add_job(..., id=id)
ensure_job(js, id, t) ==
    IF get_job(js, id, 0) = {} THEN js \cup {GlobalJob(id, t, now)} ELSE js

\* Process restart: models.py is imported again, the handlers in flight and
\* the session cache of the old process are gone, cog_load re-registers the
\* global jobs that the durable store lacks.
cog_load ==
    /\ import_day' = now
    /\ jobs' = ensure_job(ensure_job(jobs, "daily-challenge-start", START_TIME),
                          "daily-challenge-end", END_TIME)
    /\ out' = NoOut
    /\ cleaning' = {}
    /\ submitting' = {}
    /\ http_sessions' = [g \in Guilds |-> NoSession]
    /\ UNCHANGED <<now, leetcode_guild_configs, leetcode_members,
                   leetcode_questions, leetcode_submissions, platform>>

\* job_defaults of cog_load: what the scheduler does with firings that came
\* due while the process was down.
coalesce == TRUE

\* A grace window of an hour.
misfire_grace_time_one_hour == 60 * 60

misfire_grace_time == 60

\* Seconds since the start of UTC day 0; the cron triggers of the jobs are
\* daily, at hour:minute:second UTC.
SecondsPerDay == 86400
TimeOfDay(t) == t[1] * 3600 + t[2] * 60 + t[3]

\* Moments at which the process stops and resumes.
ResumeTimes ==
    {0, 1, 59, 60, 61, 82800, 82860, 82861, 86399, 86459, 86460,
     SecondsPerDay, SecondsPerDay + 60, SecondsPerDay + 61,
     2 * SecondsPerDay, 2 * SecondsPerDay + 60, 2 * SecondsPerDay + 61}

\* The due times of a job after the last moment the scheduler looked at it
\* and up to the moment it looks again.
DueTimes(j, down, wake) ==
    {x \in {d * SecondsPerDay + TimeOfDay(j.time) : d \in 0..2} : down < x /\ x <= wake}

LatestOf(run_times) == {x \in run_times : \A y \in run_times : y <= x}

\* Coalescing keeps the most recent of the due times.
Coalesced(run_times) == IF coalesce THEN LatestOf(run_times) ELSE run_times

\* A due time older than the grace window is a misfire and is not run.
RunTimes(run_times, wake) == {x \in run_times : wake - x <= misfire_grace_time}

\* scheduler.start() after the process was down from `down` to `wake`:
\* the firings of stored job j that are run now.
scheduler_resume(j, down, wake) ==
    /\ j \in jobs
    /\ down < wake
    /\ Rejected(Given(Reply("resume", j.guild, 0, 0, j.id,
                            <<RunTimes(Coalesced(DueTimes(j, down, wake)), wake)>>,
                            0, <<>>),
                      <<TimeOfDay(j.time), down, wake>>, <<>>))

EnabledGuildIds == {c.guild_id : c \in
                    get_leetcode_configs_with_active_daily_challenge(leetcode_guild_configs)}

\* The reply of a handler is read before the next handler runs.
ReplyDelivered ==
    /\ out # NoOut
    /\ out' = NoOut
    /\ UNCHANGED <<now, import_day, leetcode_guild_configs, leetcode_members,
                   leetcode_questions, leetcode_submissions, jobs, platform, cleaning, submitting, http_sessions>>

ApiOutcomes == { <<"ok", "ok">>, <<"http_error", "ok">>, <<"null", "ok">>,
                 <<"ok", "http_error">>, <<"ok", "null">> }

\* Submission workflow: guilds are set up and stopped, members join,
\* submissions are claimed and days pass.
Next ==
    \/ out = NoOut /\ \E g \in Guilds, c \in Cookies : leetcode_init(g, c, "UTC")
    \/ out = NoOut /\ \E g \in Guilds : leetcode_stop(g)
    \/ out = NoOut /\ \E g \in Guilds, u \in Users : leetcode_join(g, u)
    \/ out = NoOut /\ \E g \in Guilds, u \in Users, l \in LinkInputs, r \in ApiOutcomes :
                          leetcode_submit(g, u, l, r[1], r[2], "ok")
    \/ out = NoOut /\ Tick
    \/ ReplyDelivered

Spec == Init /\ [][Next]_vars

\* The store: members come and go, submissions are recorded, days pass and
\* the process restarts.
NextStore ==
    \/ out = NoOut /\ \E g \in Guilds, c \in Cookies : leetcode_init(g, c, "UTC")
    \/ out = NoOut /\ \E g \in Guilds, u \in Users : leetcode_join(g, u)
    \/ out = NoOut /\ \E g \in Guilds, u \in Users : leetcode_quit(g, u)
    \/ out = NoOut /\ \E g \in Guilds, u \in Users, l \in LinkInputs :
                          leetcode_submit(g, u, l, "ok", "ok", "ok")
    \/ out = NoOut /\ Tick
    \/ out = NoOut /\ cog_load
    \/ ReplyDelivered

SpecStore == Init /\ [][NextStore]_vars

\* Day start: guilds are set up and stopped, channels change, the start job fires.
NextStart ==
    \/ out = NoOut /\ \E g \in Guilds, c \in Cookies : leetcode_init(g, c, "UTC")
    \/ out = NoOut /\ \E g \in Guilds : leetcode_stop(g)
    \/ out = NoOut /\ \E g \in Guilds, c \in ChannelStates : ChannelChanged(g, c)
    \/ out = NoOut /\ \E r \in HttpResponses, order \in QueryOrders(EnabledGuildIds) :
                          daily_challenge_start(r, order)
    \/ out = NoOut /\ Tick
    \/ ReplyDelivered

SpecStart == Init /\ [][NextStart]_vars

\* A guild's day: the start job stamps the date, members submit, days pass.
NextDay ==
    \/ out = NoOut /\ \E g \in Guilds, c \in Cookies : leetcode_init(g, c, "UTC")
    \/ out = NoOut /\ \E g \in Guilds, u \in Users : leetcode_join(g, u)
    \/ out = NoOut /\ \E g \in Guilds, u \in Users, l \in LinkInputs :
                          leetcode_submit(g, u, l, "ok", "ok", "ok")
    \/ out = NoOut /\ \E order \in QueryOrders(EnabledGuildIds) :
                          daily_challenge_start("ok", order)
    \/ out = NoOut /\ Tick
    \/ out = NoOut /\ cog_load
    \/ ReplyDelivered

SpecDay == Init /\ [][NextDay]_vars

\* Reminder job lifecycle: admin commands register and remove the job, the
\* role disappears, the job fires.
NextRemind ==
    \/ out = NoOut /\ \E g \in Guilds, c \in Cookies, tz \in Timezones :
                          leetcode_init(g, c, tz)
    \/ out = NoOut /\ \E g \in Guilds, d \in RoleDeleteOutcomes : leetcode_clean(g, d)
    \/ out = NoOut /\ \E g \in Guilds : leetcode_start(g)
    \/ out = NoOut /\ \E g \in Guilds : leetcode_stop(g)
    \/ out = NoOut /\ \E g \in Guilds, h \in {0, 24}, s \in {0, 60} :
                          leetcode_remind_time(g, h, 0, s)
    \/ out = NoOut /\ \E g \in Guilds : daily_challenge_remind(g)
    \/ out = NoOut /\ \E g \in Guilds : RoleDeleted(g)
    \/ out = NoOut /\ \E g \in Guilds, c \in ChannelStates : ChannelChanged(g, c)
    \/ out = NoOut /\ \E g \in Guilds : GuildRemoved(g)
    \/ out = NoOut /\ cog_load
    \/ ReplyDelivered

SpecRemind == Init /\ [][NextRemind]_vars

\* A clean that is suspended while other handlers of the guild run: the
\* reminder job is registered again before the configuration is deleted.
NextRace ==
    \/ out = NoOut /\ \E g \in Guilds, c \in Cookies : leetcode_init(g, c, "UTC")
    \/ out = NoOut /\ \E g \in Guilds : leetcode_start(g)
    \/ out = NoOut /\ \E g \in Guilds : leetcode_stop(g)
    \/ out = NoOut /\ \E g \in Guilds, h \in RemindHours, m \in RemindMinutes,
                         s \in RemindSeconds : leetcode_remind_time(g, h, m, s)
    \/ out = NoOut /\ \E g \in Guilds : leetcode_clean_suspend(g)
    \/ out = NoOut /\ \E g \in Guilds, d \in RoleDeleteOutcomes :
                          leetcode_clean_resume(g, d)
    \/ out = NoOut /\ \E g \in Guilds : daily_challenge_remind(g)
    \/ ReplyDelivered

SpecRace == Init /\ [][NextRace]_vars

\* A guild with members and submissions removes the bot; its reminder fires.
NextGone ==
    \/ out = NoOut /\ \E g \in Guilds, c \in Cookies : leetcode_init(g, c, "UTC")
    \/ out = NoOut /\ \E g \in Guilds, u \in Users : leetcode_join(g, u)
    \/ out = NoOut /\ \E g \in Guilds, u \in Users, l \in LinkInputs :
                          leetcode_submit(g, u, l, "ok", "ok", "ok")
    \/ out = NoOut /\ \E g \in Guilds : GuildRemoved(g)
    \/ out = NoOut /\ \E g \in Guilds : daily_challenge_remind(g)
    \/ ReplyDelivered

SpecGone == Init /\ [][NextGone]_vars

\* Every command and every job of a guild, around the start of a day.
NextFrame ==
    \/ out = NoOut /\ \E g \in Guilds, c \in Cookies : leetcode_init(g, c, "UTC")
    \/ out = NoOut /\ \E g \in Guilds : leetcode_start(g)
    \/ out = NoOut /\ \E g \in Guilds : leetcode_stop(g)
    \/ out = NoOut /\ \E g \in Guilds, id \in ChannelIdInputs : leetcode_channel(g, id)
    \/ out = NoOut /\ \E g \in Guilds, tz \in Timezones : leetcode_timezone(g, tz)
    \/ out = NoOut /\ \E g \in Guilds, s \in {0, 60} : leetcode_remind_time(g, 23, 0, s)
    \/ out = NoOut /\ \E g \in Guilds : leetcode_join(g, 1)
    \/ out = NoOut /\ \E g \in Guilds : leetcode_quit(g, 1)
    \/ out = NoOut /\ \E g \in Guilds, r \in UpdateResponses : leetcode_update(g, r)
    \/ out = NoOut /\ \E g \in Guilds : leetcode_submit(g, 1, <<"1">>, "ok", "ok", "ok")
    \/ out = NoOut /\ \E g \in Guilds : daily_challenge_remind(g)
    \/ out = NoOut /\ \E order \in QueryOrders(EnabledGuildIds) :
                          daily_challenge_start("ok", order)
    \/ out = NoOut /\ \E order \in QueryOrders(EnabledGuildIds) :
                          daily_challenge_end(order)
    \/ out = NoOut /\ \E g \in Guilds : RoleDeleted(g)
    \/ ReplyDelivered

SpecFrame == Init /\ [][NextFrame]_vars

\* The gate of submit: guilds are set up and stopped, members join, the
\* notification channel changes, a submission is claimed while the
\* challenge site answers or fails.
NextGate ==
    \/ out = NoOut /\ \E g \in Guilds, c \in Cookies : leetcode_init(g, c, "UTC")
    \/ out = NoOut /\ \E g \in Guilds : leetcode_stop(g)
    \/ out = NoOut /\ \E g \in Guilds, u \in Users : leetcode_join(g, u)
    \/ out = NoOut /\ \E g \in Guilds, c \in ChannelStates : ChannelChanged(g, c)
    \/ out = NoOut /\ \E g \in Guilds, u \in Users, l \in {<<"/">>, <<"1">>},
                         r \in ApiOutcomes : leetcode_submit(g, u, l, r[1], r[2], "ok")
    \/ ReplyDelivered

SpecGate == Init /\ [][NextGate]_vars

\* The verdict of submit: the members of guild 1 claim every kind of
\* submission the site knows, the two sends succeed or fail, days pass.
NextVerdict ==
    \/ out = NoOut /\ \E c \in Cookies : leetcode_init(1, c, "UTC")
    \/ out = NoOut /\ \E u \in Users : leetcode_join(1, u)
    \/ out = NoOut /\ \E u \in Users, id \in IdInputs, s \in SendResponses :
                          leetcode_submit(1, u, id, "ok", "ok", s)
    \/ out = NoOut /\ Tick
    \/ ReplyDelivered

SpecVerdict == Init /\ [][NextVerdict]_vars

\* Day end: guilds are set up and stopped, members join, channels change,
\* the end job fires.
NextEnd ==
    \/ out = NoOut /\ \E g \in Guilds, c \in Cookies : leetcode_init(g, c, "UTC")
    \/ out = NoOut /\ \E g \in Guilds : leetcode_stop(g)
    \/ out = NoOut /\ \E g \in Guilds, u \in Users : leetcode_join(g, u)
    \/ out = NoOut /\ \E g \in Guilds, c \in ChannelStates : ChannelChanged(g, c)
    \/ out = NoOut /\ \E order \in QueryOrders(EnabledGuildIds) :
                          daily_challenge_end(order)
    \/ ReplyDelivered

SpecEnd == Init /\ [][NextEnd]_vars

\* The process is down for a while and resumes: the scheduler finds stored
\* jobs whose firings came due in between.
NextResume ==
    \/ out = NoOut /\ leetcode_init(1, "c1", "UTC")
    \/ out = NoOut /\ \E j \in jobs, down \in ResumeTimes, wake \in ResumeTimes :
                          scheduler_resume(j, down, wake)
    \/ ReplyDelivered

SpecResume == Init /\ [][NextResume]_vars

\* Cookies an administrator configures one after the other.
RotatedCookies == {"c1", "c2"}

\* The commands and jobs of a submit that is still under way while the day
\* changes: guild 1, submission 1 on day 0 and submission 2 on day 1.
FlightInputs == { <<"1">>, <<"/", "2", "/">> }

NextFlight ==
    \/ out = NoOut /\ \E c \in Cookies : leetcode_init(1, c, "UTC")
    \/ out = NoOut /\ \E u \in Users : leetcode_join(1, u)
    \/ out = NoOut /\ \E u \in Users, l \in FlightInputs : leetcode_submit_suspend(1, u, l)
    \/ out = NoOut /\ \E call \in submitting : leetcode_submit_resume(call)
    \/ out = NoOut /\ \E order \in QueryOrders(EnabledGuildIds) :
                          daily_challenge_start("ok", order)
    \/ out = NoOut /\ Tick
    \/ out = NoOut /\ cog_load
    \/ ReplyDelivered

SpecFlight == Init /\ [][NextFlight]_vars

\* The session cache: guilds are configured, cleaned and configured again,
\* commands obtain the guild's HTTP session, also while the call that
\* created it still waits for the database.
NextSession ==
    \/ out = NoOut /\ \E g \in Guilds, c \in RotatedCookies : leetcode_init(g, c, "UTC")
    \/ out = NoOut /\ \E g \in Guilds : leetcode_clean(g, "ok")
    \/ out = NoOut /\ \E g \in Guilds : leetcode_update(g, "ok")
    \/ out = NoOut /\ \E g \in Guilds : get_http_session_first(g)
    \/ out = NoOut /\ \E g \in Guilds : get_http_session_loaded(g)
    \/ out = NoOut /\ \E g \in Guilds : get_http_session_cached(g)
    \/ out = NoOut /\ cog_load
    \/ ReplyDelivered

SpecSession == Init /\ [][NextSession]_vars

\* ================================================================ claims
OutSubmissionId(reply) == int(re_search_digits(reply.arg))
RowsOfSubmissionId(submissions, submission_id) ==
    {s \in submissions : s.submission_id = submission_id}
MemberUserIds(members, g) == {m.user_id : m \in get_guild_members(members, g)}
Completed(submissions, members, g, D) ==
    BagSet(get_completed_user_ids(submissions, members, g, <<D>>))
Uncompleted(submissions, members, g, D) ==
    BagSet(get_uncompleted_user_ids(submissions, members, g, <<D>>))
TablesUnchanged ==
    /\ leetcode_submissions' = leetcode_submissions
    /\ leetcode_questions' = leetcode_questions

C3_StartDatesEveryEnabledGuild ==
    [][ (out'.op = "start_of_day" /\ out'.resp = <<"ok">>)
        => \A c \in leetcode_guild_configs' :
               IF c.daily_challenge_on
               THEN c.daily_challenge_date = <<now>>
               ELSE c \in leetcode_guild_configs ]_vars

\* C4: a start_of_day run whose challenge fetch failed changes no guild's
\* daily_challenge_date (no row at all) and sends no message.
C4_FetchFailureTouchesNothing ==
    [][ (out'.op = "start_of_day" /\ out'.resp # <<"ok">>)
        => ( /\ leetcode_guild_configs' = leetcode_guild_configs
             /\ out'.sent = <<>>
             /\ out'.status # 0 ) ]_vars

\* C4 witness: the fetch failed in a run that had an enabled guild with a
\* usable channel to announce to.
C4_Witness ==
    /\ out.op = "start_of_day"
    /\ out.resp # <<"ok">>
    /\ \E c \in leetcode_guild_configs :
           c.daily_challenge_on /\ platform[c.guild_id].channel = "ok"

C8_DisabledGuildRejectsSubmit ==
    [][ ( /\ out'.op = "submit"
          /\ \E i \in 1..Len(out'.arg) : IsDigit(out'.arg[i])
          /\ HasConfig(out'.guild)
          /\ ~Config(out'.guild).daily_challenge_on )
        => ( /\ out'.status = 400
             /\ out'.error = "not_enabled"
             /\ out'.api = 0
             /\ out'.sent = <<>>
             /\ TablesUnchanged ) ]_vars

\* C8 witness: a member of a stopped guild submitted a valid id.
C8_Witness ==
    /\ out.op = "submit"
    /\ out.error = "not_enabled"
    /\ get_member_by_guild_user(leetcode_members, out.guild, out.user) # {}
    /\ OutSubmissionId(out) = 1

\* C9: when both fetches succeed and the submission's question id is not
\* today's challenge question id, submit is rejected (400) with a message
\* citing the two ids, and no Submission or Question row is written.
C9_WrongQuestionRejected ==
    [][ ( /\ out'.op = "submit"
          /\ out'.api = 2
          /\ SubSeq(out'.resp, 1, 2) = <<"ok", "ok">>
          /\ SubmissionDetails(OutSubmissionId(out')) # <<>>
          /\ SubmissionDetails(OutSubmissionId(out'))[1].question # QuestionOfDay(now) )
        => ( /\ out'.status = 400
             /\ out'.error = "wrong_question"
             /\ out'.detail = << SubmissionDetails(OutSubmissionId(out'))[1].question,
                                 QuestionOfDay(now) >>
             /\ out'.sent = <<>>
             /\ TablesUnchanged ) ]_vars

\* C9 witness: an accepted submission of another day's question was refused.
C9_Witness ==
    /\ out.op = "submit"
    /\ out.error = "wrong_question"
    /\ out.detail[1] # out.detail[2]
    /\ SubmissionDetails(OutSubmissionId(out))[1].statusCode = 10

\* C10: when remind(G) fires with config and guild present and the role
\* gone, the job remind-G is removed, daily_challenge_on is stored as false
\* and nothing is sent; remind fires only while its job is registered, and
\* only init, start or remind_time of that guild register it again.
C10_RoleGoneDisablesReminder ==
    [][ /\ ( /\ out'.op = "remind"
             /\ HasConfig(out'.guild)
             /\ platform[out'.guild].present
             /\ ~platform[out'.guild].role )
           => ( /\ get_job(jobs', "remind", out'.guild) = {}
                /\ \E c \in leetcode_guild_configs' :
                       c.guild_id = out'.guild /\ ~c.daily_challenge_on
                /\ \A c \in leetcode_guild_configs' :
                       c.guild_id = out'.guild => ~c.daily_challenge_on
                /\ out'.sent = <<>>
                /\ out'.status # 0 )
        /\ out'.op = "remind" => get_job(jobs, "remind", out'.guild) # {}
        /\ \A g \in Guilds :
               (get_job(jobs, "remind", g) = {} /\ get_job(jobs', "remind", g) # {})
               => (out'.guild = g /\ out'.op \in {"init", "start", "remind_time"}) ]_vars

\* C10 witness: the reminder fired for a guild whose role had been deleted.
C10_Witness ==
    /\ out.op = "remind"
    /\ out.error = "role_missing"
    /\ get_job(jobs, "remind", out.guild) = {}

\* C11: when remind(G) fires with config, guild and role present, the job
\* is removed and daily_challenge_on stored as false exactly when the
\* channel is missing or the bot may not send in it; with a channel the bot
\* may send in, the reminder is sent and job and configuration stay as they were.
C11_DisablesOnlyOnChannelFailure ==
    [][ ( /\ out'.op = "remind"
          /\ \E c \in leetcode_guild_configs : c.guild_id = out'.guild
          /\ platform[out'.guild].present
          /\ platform[out'.guild].role )
        => IF platform[out'.guild].channel = "ok"
           THEN /\ \E i \in 1..Len(out'.sent) :
                       out'.sent[i].kind = "remind" /\ out'.sent[i].channel = out'.guild
                /\ jobs' = jobs
                /\ leetcode_guild_configs' = leetcode_guild_configs
           ELSE /\ get_job(jobs', "remind", out'.guild) = {}
                /\ \A c \in leetcode_guild_configs' :
                       c.guild_id = out'.guild => ~c.daily_challenge_on ]_vars

\* C12: when remind(G) fires and G has no GuildConfig, the job remind-G is
\* removed, the "not initialized" error is reported, nothing is sent and no
\* persisted row is created or changed.
C12_StaleJobRemoved ==
    [][ ( /\ out'.op = "remind"
          /\ \A c \in leetcode_guild_configs : c.guild_id # out'.guild )
        => ( /\ get_job(jobs', "remind", out'.guild) = {}
             /\ out'.status = 404
             /\ out'.error = "no_config"
             /\ out'.sent = <<>>
             /\ leetcode_guild_configs' = leetcode_guild_configs
             /\ leetcode_members' = leetcode_members
             /\ leetcode_questions' = leetcode_questions
             /\ leetcode_submissions' = leetcode_submissions ) ]_vars

\* C12 witness: the reminder fired for a guild without configuration while
\* another guild is configured and keeps its own job.
C12_Witness ==
    /\ out.op = "remind"
    /\ \A c \in leetcode_guild_configs : c.guild_id # out.guild
    /\ get_job(jobs, "remind", out.guild) = {}
    /\ \E c \in leetcode_guild_configs : get_job(jobs, "remind", c.guild_id) # {}

\* C13: when remind(G) fires and the guild is gone from the platform, the
\* job remind-G is removed, G's GuildConfig is deleted with all of G's
\* Member and Submission rows, and the rows of every other guild stay.
C13_GuildGoneDeletesItsRows ==
    [][ ( /\ out'.op = "remind"
          /\ \E c \in leetcode_guild_configs : c.guild_id = out'.guild
          /\ ~platform[out'.guild].present )
        => ( /\ get_job(jobs', "remind", out'.guild) = {}
             /\ \A c \in leetcode_guild_configs' : c.guild_id # out'.guild
             /\ \A m \in leetcode_members' : m.guild_id # out'.guild
             /\ \A x \in leetcode_submissions' : x.guild_id # out'.guild
             /\ \A c \in leetcode_guild_configs :
                    c.guild_id # out'.guild => c \in leetcode_guild_configs'
             /\ \A m \in leetcode_members :
                    m.guild_id # out'.guild => m \in leetcode_members'
             /\ \A x \in leetcode_submissions :
                    x.guild_id # out'.guild => x \in leetcode_submissions' ) ]_vars

C15_GlobalJobsRegisteredOnce ==
    [][ /\ Cardinality(get_job(jobs', "daily-challenge-start", 0)) = 1
        /\ Cardinality(get_job(jobs', "daily-challenge-end", 0)) = 1
        /\ \A j \in jobs : j.guild = 0 => j \in jobs' ]_vars

\* C15 witness: the process was restarted on a later day than the one on
\* which the global jobs were stored.
C15_Witness ==
    /\ import_day > 0
    /\ \E j \in get_job(jobs, "daily-challenge-start", 0) : j.added < import_day
    /\ \E j \in get_job(jobs, "daily-challenge-end", 0) : j.added < import_day

\* C16: after every init, start, stop, remind_time, clean or remind step
\* the job store holds at most one reminder job per guild, and after
\* remind_time(h, m, s) succeeded the guild's only reminder job is the one
\* firing at h:m:s UTC (a job with the earlier time is no longer stored).
C16_OneReminderPerGuild ==
    [][ /\ \A g \in Guilds : Cardinality(get_job(jobs', "remind", g)) <= 1
        /\ (out'.op = "remind_time" /\ out'.status = 0)
           => get_job(jobs', "remind", out'.guild)
              = {RemindJob(out'.guild, <<out'.arg[1], out'.arg[2], out'.arg[3]>>)} ]_vars

\* C16 witness: remind_time moved a guild's reminder to the last second of
\* the day while the other guild keeps a reminder at another time.
C16_Witness ==
    /\ out.op = "remind_time"
    /\ out.status = 0
    /\ out.arg = <<23, 59, 59>>
    /\ get_job(jobs, "remind", out.guild) = {RemindJob(out.guild, <<23, 59, 59>>)}
    /\ \E j \in jobs : j.id = "remind" /\ j.guild # out.guild /\ j.time # <<23, 59, 59>>

\* C17: remind_time rejects with status 400 exactly the calls with hour
\* outside 0..23, minute outside 0..59 or second outside 0..59, and a
\* rejected call changes neither the stored remind_time nor the jobs; a call
\* in range for a configured guild succeeds and stores the time as hh:mm:ss.
C17_RemindTimeRange ==
    [][ out'.op = "remind_time"
        => LET h == out'.arg[1]
               m == out'.arg[2]
               s == out'.arg[3]
               inRange == /\ 0 <= h /\ h <= 23
                          /\ 0 <= m /\ m <= 59
                          /\ 0 <= s /\ s <= 59
           IN  /\ (out'.status = 400) <=> ~inRange
               /\ out'.status # 0
                  => /\ leetcode_guild_configs' = leetcode_guild_configs
                     /\ jobs' = jobs
               /\ (inRange /\ \E c \in leetcode_guild_configs : c.guild_id = out'.guild)
                  => /\ out'.status = 0
                     /\ \E c \in leetcode_guild_configs' :
                            /\ c.guild_id = out'.guild
                            /\ c.remind_time = TimeStr(h, m, s)
                            /\ timestr_to_time(c.remind_time) = <<h, m, s>> ]_vars

\* C17 witness: hour 24 was refused for a guild whose reminder had been set
\* to 23:59:59 and is still registered at that time.
C17_Witness ==
    /\ out.op = "remind_time"
    /\ out.status = 400
    /\ out.arg[1] = 24
    /\ \E c \in leetcode_guild_configs :
           /\ c.guild_id = out.guild
           /\ c.remind_time = TimeStr(23, 59, 59)
    /\ get_job(jobs, "remind", out.guild) = {RemindJob(out.guild, <<23, 59, 59>>)}

\* C18: no step other than a start_of_day run changes the
\* daily_challenge_date of a guild's configuration: not init, start, stop,
\* channel, timezone, remind_time, join, quit, update or submit, and neither
\* the remind nor the end-of-day job.
C18_OnlyStartWritesDate ==
    [][ out'.op # "start_of_day"
        => \A c \in leetcode_guild_configs, d \in leetcode_guild_configs' :
               c.guild_id = d.guild_id
               => d.daily_challenge_date = c.daily_challenge_date ]_vars

\* C18 witness: a guild dated by the start job had one of its settings
\* rewritten by a command and keeps the date.
C18_Witness ==
    /\ out.op \in {"stop", "timezone", "remind_time", "channel"}
    /\ out.status = 0
    /\ \E c \in leetcode_guild_configs :
           c.guild_id = out.guild /\ c.daily_challenge_date = <<now>>

\* C19: no invocation of a job handler (start_of_day, remind, end_of_day)
\* ends with an exception leaving the handler: whatever goes wrong inside is
\* caught and logged there, so the handler returns normally (error "").
C19_JobHandlersReturnNormally ==
    [][ out'.op \in {"start_of_day", "remind", "end_of_day"}
        => (out'.error = "" /\ out'.status = 0) ]_vars

\* C20: in a start_of_day run whose fetch succeeded, every enabled guild
\* other than those whose own send fails has its daily_challenge_date set to
\* the run's day, and every enabled guild with a channel the bot may send in
\* receives the announcement, wherever the failing guild is in the order.
C20_AnnouncementFailureIsLocal ==
    [][ (out'.op = "start_of_day" /\ out'.resp = <<"ok">>)
        => \A c \in leetcode_guild_configs :
               (c.daily_challenge_on /\ platform[c.guild_id].channel # "noperm")
               => ( /\ \E d \in leetcode_guild_configs' :
                           /\ d.guild_id = c.guild_id
                           /\ d.daily_challenge_date = <<now>>
                    /\ platform[c.guild_id].channel = "ok"
                       => \E i \in 1..Len(out'.sent) :
                              /\ out'.sent[i].channel = c.guild_id
                              /\ out'.sent[i].kind = "announcement" ) ]_vars

\* C21: after the cache was updated from the site, reading any question of
\* the site by its id returns exactly one row, whose id, title, slug,
\* difficulty and paid-only flag are the upserted ones, whether the id was
\* cached before or not.
C21_UpsertThenGetQuestion ==
    [][ (out'.op = "update" /\ out'.status = 0)
        => \A sq \in SiteQuestions :
               LET rows == get_question_by_id(leetcode_questions', sq.id)
               IN  /\ Cardinality(rows) = 1
                   /\ \A q \in rows :
                          /\ q.id = sq.id
                          /\ q.title = sq.title
                          /\ q.title_slug = sq.title_slug
                          /\ q.difficulty = sq.difficulty
                          /\ q.paid_only = sq.paid_only ]_vars

\* C21 witness: the update overwrote a row that a submit had cached with
\* other values, and added a question that was not cached.
C21_Witness ==
    /\ out.op = "update"
    /\ out.status = 0
    /\ \E x \in leetcode_submissions : x.question_id = 1
    /\ ~\E x \in leetcode_submissions : x.question_id = 2
    /\ \A sq \in SiteQuestions : get_question_by_id(leetcode_questions, sq.id) = {sq}

\* The error of the earliest failing check of submit, in the order malformed
\* input, config missing, challenge disabled, not a member, channel missing,
\* no send permission, challenge fetch, submission fetch, wrong question,
\* stale day, non-accepted status, duplicate id; "" when every check passes.
FirstFailingCheck(g, u, arg, resp, duplicate) ==
    LET id == int(re_search_digits(arg))
        known == id \in 1..Len(SiteSubmissions)
    IN  IF ~\E i \in 1..Len(arg) : IsDigit(arg[i]) THEN "no_submission_id"
        ELSE IF \A c \in leetcode_guild_configs : c.guild_id # g THEN "not_initialized"
        ELSE IF \E c \in leetcode_guild_configs : c.guild_id = g /\ ~c.daily_challenge_on
             THEN "not_enabled"
        ELSE IF [guild_id |-> g, user_id |-> u] \notin leetcode_members THEN "not_joined"
        ELSE IF platform[g].channel = "missing" THEN "channel_not_found"
        ELSE IF platform[g].channel = "noperm" THEN "no_send_permission"
        ELSE IF resp[1] = "http_error" THEN "daily_fetch_failed"
        ELSE IF resp[1] = "null" THEN "daily_not_found"
        ELSE IF resp[2] = "http_error" THEN "submission_fetch_failed"
        ELSE IF resp[2] = "null" \/ ~known THEN "submission_not_found"
        ELSE IF SiteSubmissions[id].question # QuestionOfDay(now) THEN "wrong_question"
        ELSE IF SiteSubmissions[id].timestamp \div HoursPerDay # now THEN "not_today"
        ELSE IF SiteSubmissions[id].statusCode # 10 THEN "not_accepted"
        ELSE IF duplicate THEN "already_submitted"
        ELSE ""

ChecksBeforeApi ==
    {"no_submission_id", "not_initialized", "not_enabled", "not_joined",
     "channel_not_found", "no_send_permission"}

C23_ApiOnlyAfterLocalChecks ==
    [][ out'.op = "submit"
        => LET g == out'.guild
               u == out'.user
               stores_unchanged == /\ leetcode_submissions' = leetcode_submissions
                                   /\ leetcode_questions' = leetcode_questions
           IN  /\ out'.api \in 0..2
               /\ out'.api > 0
                  => /\ HasConfig(g)
                     /\ Config(g).daily_challenge_on
                     /\ [guild_id |-> g, user_id |-> u] \in leetcode_members
                     /\ platform[g].channel = "ok"
               /\ (out'.api > 0 /\ out'.resp[1] # "ok")
                  => out'.api = 1 /\ out'.status # 0 /\ stores_unchanged
               /\ (out'.api > 0 /\ out'.resp[1] = "ok" /\ out'.resp[2] # "ok")
                  => out'.api = 2 /\ out'.status # 0 /\ stores_unchanged ]_vars

\* C23 witness: with a guild whose channel refuses the bot next to it, a
\* member's claim passed the local checks and the challenge fetch failed.
C23_Witness ==
    /\ out.op = "submit" /\ out.error = "daily_fetch_failed" /\ out.api = 1
    /\ \E g \in Guilds : platform[g].channel = "noperm" /\ HasConfig(g)

\* C24: a submission for today's question with the accepted status whose
\* timestamp falls on another UTC calendar day than the active challenge's
\* date is rejected as not submitted today, and no row is written.
C24_StaleDayRejected ==
    [][ ( /\ out'.op = "submit"
          /\ out'.api = 2
          /\ SubSeq(out'.resp, 1, 2) = <<"ok", "ok">>
          /\ OutSubmissionId(out') \in 1..Len(SiteSubmissions)
          /\ LET d == SiteSubmissions[OutSubmissionId(out')]
             IN  /\ d.question = QuestionOfDay(now)
                 /\ d.statusCode = 10
                 /\ d.timestamp \div HoursPerDay # now )
        => /\ out'.status = 400
           /\ out'.error = "not_today"
           /\ leetcode_submissions' = leetcode_submissions
           /\ leetcode_questions' = leetcode_questions ]_vars

\* C24 witness: on day 1 a member claims accepted submission 3 of that
\* day's question, made in the last hour of day 0; it is rejected.
C24_Witness ==
    /\ out.op = "submit" /\ out.arg = <<"3">> /\ out.error = "not_today"
    /\ now = 1 /\ SiteSubmissions[3].question = QuestionOfDay(1)
    /\ SiteSubmissions[3].statusCode = 10 /\ SiteSubmissions[3].timestamp = 23

\* C25: submit stores a Submission row only for a fetched status code of
\* 10; a claim that reaches the status comparison with any other code, a
\* code without a name included, is rejected with the display name of that
\* status in the message and writes no row.
C25_OnlyAcceptedStatusPersisted ==
    [][ out'.op = "submit"
        => /\ \A row \in leetcode_submissions' \ leetcode_submissions :
                  /\ row.submission_id \in 1..Len(SiteSubmissions)
                  /\ SiteSubmissions[row.submission_id].statusCode = 10
           /\ ( /\ out'.api = 2
                /\ SubSeq(out'.resp, 1, 2) = <<"ok", "ok">>
                /\ OutSubmissionId(out') \in 1..Len(SiteSubmissions)
                /\ LET d == SiteSubmissions[OutSubmissionId(out')]
                   IN  /\ d.question = QuestionOfDay(now)
                       /\ d.timestamp \div HoursPerDay = now
                       /\ d.statusCode # 10 )
              => /\ out'.status = 400
                 /\ out'.error = "not_accepted"
                 /\ out'.detail =
                        <<get_status_display(SiteSubmissions[OutSubmissionId(out')].statusCode)>>
                 /\ out'.detail # <<"Accepted">>
                 /\ leetcode_submissions' = leetcode_submissions
                 /\ leetcode_questions' = leetcode_questions ]_vars

\* C25 witness: a member claims submission 7 of today's question, made
\* today, whose status code 99 has no name; it is rejected as
\* "Unknown Status" with no row stored for it.
C25_Witness ==
    /\ out.op = "submit" /\ out.arg = <<"7">> /\ SiteSubmissions[7].statusCode = 99
    /\ out.error = "not_accepted" /\ out.detail = <<"Unknown Status">>
    /\ RowsOfSubmissionId(leetcode_submissions, 7) = {}

MessagesTo(sent, g) == {i \in 1..Len(sent) : sent[i].channel = g}

\* C28: a run of end_of_day sends exactly one summary, computed for the
\* guild's current daily_challenge_date, to every guild whose challenge is
\* enabled and whose notification channel exists and takes the message,
\* whatever the state of the other guilds' channels; guilds that are
\* disabled or without channel receive nothing and no stored row changes.
C28_OneSummaryPerEnabledGuild ==
    [][ out'.op = "end_of_day"
        => /\ \A g \in Guilds :
                  LET enabled == HasConfig(g) /\ Config(g).daily_challenge_on
                  IN  /\ (enabled /\ platform[g].channel = "ok")
                         => \E i \in 1..Len(out'.sent) :
                                /\ MessagesTo(out'.sent, g) = {i}
                                /\ out'.sent[i] = EndMessage(g)
                      /\ (~enabled \/ platform[g].channel = "missing")
                         => MessagesTo(out'.sent, g) = {}
           /\ UNCHANGED <<leetcode_guild_configs, leetcode_members,
                          leetcode_questions, leetcode_submissions, jobs>> ]_vars

\* C29: a reminder of a guild that has its config, is still on the
\* platform, has its role and a notification channel the bot may send to
\* sends exactly one message, and that message mentions exactly the members
\* of the guild without a Submission on the guild's daily_challenge_date
\* (nobody when all have one).
C29_ReminderMentionsUncompleted ==
    [][ ( /\ out'.op = "remind"
          /\ HasConfig(out'.guild)
          /\ platform[out'.guild].present
          /\ platform[out'.guild].role
          /\ platform[out'.guild].channel = "ok" )
        => out'.sent = <<RemindMessage(out'.guild,
                                       Config(out'.guild).daily_challenge_date)>> ]_vars

C31_OneConfigPerGuild ==
    [][ /\ \A g \in Guilds :
               Cardinality(get_leetcode_config(leetcode_guild_configs', g)) <= 1
        /\ (out'.op = "init" /\ HasConfig(out'.guild))
           => /\ out'.status = 400
              /\ UNCHANGED <<leetcode_guild_configs, platform, jobs>>
        /\ \A g \in Guilds :
               LET has_after == get_leetcode_config(leetcode_guild_configs', g) # {}
               IN  /\ (~HasConfig(g) /\ has_after)
                      => out'.op = "init" /\ out'.guild = g
                   /\ (HasConfig(g) /\ ~has_after)
                      => /\ out'.guild = g
                         /\ \/ out'.op = "clean"
                            \/ out'.op = "remind" /\ ~platform[g].present ]_vars

\* C31 witness: init is rejected for a guild that has its config while the
\* role of the guild is gone from the platform.
C31_Witness ==
    /\ out.op = "init" /\ out.status = 400 /\ out.error = "already_initialized"
    /\ HasConfig(out.guild) /\ ~platform[out.guild].role

\* C32: no (guild, user) ever has two Member rows; join by a member and
\* quit by a non-member are rejected and change no Member row, join and
\* quit in a guild without config are rejected with 404, a successful join
\* adds the caller's row and nothing else, a successful quit removes the
\* caller's row and nothing else.
C32_OneMemberPerGuildUser ==
    [][ LET g == out'.guild
            u == out'.user
            row == [guild_id |-> g, user_id |-> u]
        IN  /\ \A gg \in Guilds, uu \in Users :
                   Cardinality(get_member_by_guild_user(leetcode_members', gg, uu)) <= 1
            /\ out'.op = "join"
               => /\ ~HasConfig(g) => out'.status = 404
                  /\ row \in leetcode_members => out'.status = 400
                  /\ out'.status # 0 => leetcode_members' = leetcode_members
                  /\ out'.status = 0 => /\ row \notin leetcode_members
                                        /\ leetcode_members' = leetcode_members \cup {row}
            /\ out'.op = "quit"
               => /\ ~HasConfig(g) => out'.status = 404
                  /\ (HasConfig(g) /\ row \notin leetcode_members) => out'.status = 400
                  /\ out'.status # 0 => leetcode_members' = leetcode_members
                  /\ out'.status = 0 => /\ row \in leetcode_members
                                        /\ leetcode_members' = leetcode_members \ {row} ]_vars

\* C32 witness: a member of two guilds quit one of them, where another
\* member stays; the two other rows are still there.
C32_Witness ==
    /\ out.op = "quit" /\ out.status = 0
    /\ [guild_id |-> out.guild, user_id |-> out.user] \notin leetcode_members
    /\ \E g \in Guilds \ {out.guild} : [guild_id |-> g, user_id |-> out.user] \in leetcode_members
    /\ \E u \in Users \ {out.user} : [guild_id |-> out.guild, user_id |-> u] \in leetcode_members

\* C33: when a clean of guild G reports success, no GuildConfig, Member or
\* Submission row of G is stored and no reminder job of G is registered;
\* the Question rows and the rows and jobs of the other guilds are as they
\* were before the clean finished.
C33_CleanRemovesAllOfGuild ==
    [][ (out'.op = "clean" /\ out'.status = 0)
        => LET g == out'.guild
           IN  /\ get_leetcode_config(leetcode_guild_configs', g) = {}
               /\ get_guild_members(leetcode_members', g) = {}
               /\ \A s \in leetcode_submissions' : s.guild_id # g
               /\ get_job(jobs', "remind", g) = {}
               /\ leetcode_questions' = leetcode_questions
               /\ {c \in leetcode_guild_configs' : c.guild_id # g}
                      = {c \in leetcode_guild_configs : c.guild_id # g}
               /\ {m \in leetcode_members' : m.guild_id # g}
                      = {m \in leetcode_members : m.guild_id # g}
               /\ {s \in leetcode_submissions' : s.guild_id # g}
                      = {s \in leetcode_submissions : s.guild_id # g}
               /\ {j \in jobs' : j.guild # g} = {j \in jobs : j.guild # g} ]_vars

C36_NoSessionBeforeCookieLoaded ==
    [][ ( /\ out'.op = "http_session"
          /\ http_sessions[out'.guild] # NoSession
          /\ http_sessions[out'.guild].creator = "loading"
          /\ StoredCookie(leetcode_guild_configs, out'.guild) # "" )
        => /\ out'.error = "created"
           /\ out'.detail = <<StoredCookie(leetcode_guild_configs, out'.guild)>> ]_vars

\* C37: a session handed out for a guild carries the guild's currently
\* stored cookie, also when the session was cached with the cookie of a
\* configuration that has since been cleaned and replaced.
C37_SessionCarriesCurrentCookie ==
    [][ ( /\ out'.op = "http_session"
          /\ http_sessions[out'.guild] # NoSession
          /\ http_sessions[out'.guild].creator = "done"
          /\ http_sessions[out'.guild].jar # ""
          /\ HasConfig(out'.guild) )
        => out'.detail = <<StoredCookie(leetcode_guild_configs, out'.guild)>> ]_vars

C38_StoppedGuildHasNoReminderJob ==
    \A g \in Guilds :
        ( /\ cleaning = {}
          /\ HasConfig(g)
          /\ ~Config(g).daily_challenge_on )
        => get_job(jobs, "remind", g) = {}

\* C39: whatever commands have run, those that ended in an error included,
\* every guild whose configuration exists with daily_challenge_on = TRUE
\* has its reminder job registered.
C39_EnabledGuildHasReminderJob ==
    \A g \in Guilds :
        ( /\ cleaning = {}
          /\ HasConfig(g)
          /\ Config(g).daily_challenge_on )
        => get_job(jobs, "remind", g) # {}

\* C40: whenever the reminder job of a configured guild is registered, its
\* UTC trigger time is the guild's stored remind_time: 23:00:00 after init,
\* the new time after remind_time, the stored time (not the default) after
\* start following stop.
C40_JobTimeIsStoredRemindTime ==
    \A g \in Guilds :
        HasConfig(g) =>
            \A j \in get_job(jobs, "remind", g) :
                TimeStr(j.time[1], j.time[2], j.time[3]) = Config(g).remind_time

\* C40 witness: start has just re-registered the reminder job of a guild
\* whose stored remind_time is not the default.
C40_Witness ==
    /\ out.op = "start"
    /\ out.status = 0
    /\ HasConfig(out.guild)
    /\ Config(out.guild).remind_time # DefaultRemindTime
    /\ get_job(jobs, "remind", out.guild) # {}

====
